---- MODULE Spec2Model ----
(***************************************************************************)
(* Model of the NanoPi Neo board adaptor                                   *)
(* (platforms/nanopineo/nanopi_neo_adaptor.go) and of the INA226 driver    *)
(* (drivers/i2c/ina226_driver.go).                                         *)
(*                                                                         *)
(* AdaptorSpec : whole adaptor calls, one action per exported method.      *)
(***************************************************************************)
EXTENDS Integers, Sequences, FiniteSets, TLC

VARIABLES
    digitalPins,   \* Adaptor.digitalPins : GPIO number -> cached handle
    pwmPins,       \* Adaptor.pwmPins     : PWM channel -> cached handle
    i2cBuses,      \* Adaptor.i2cBuses    : [2]I2cDevice
    gpioExp,       \* sysfs: GPIO numbers exported by a successful Export
    pwmSys,        \* sysfs: state of each PWM channel
    busOpen,       \* kernel: /dev/i2c-N devices held open
    finalizeCount, \* number of Finalize calls so far
    crashed,       \* a run-time panic ended the program
    last,          \* the outcome of the last adaptor call
    connection,    \* INA226Driver.connection
    loadSet,       \* INA226Driver.loadSet
    chipCal,       \* INA226 chip: content of the calibration register
    chipMeas,      \* INA226 chip: content of the measurement registers
    dlast,         \* the outcome of the last driver call
    mutex,         \* Adaptor.mutex: 0 when unlocked, else the goroutine holding it
    pc,            \* per goroutine: the call it is in and where
    made,          \* per GPIO number / bus index: handles stored in the cache
    okCount        \* per GPIO number / bus index: successful exports / opens

avars == <<digitalPins, pwmPins, i2cBuses, gpioExp, pwmSys, busOpen,
           finalizeCount, last>>

dvars == <<connection, loadSet, chipCal, chipMeas, dlast>>

cvars == <<mutex, pc, made, okCount>>

vars == <<avars, dvars, cvars, crashed>>

-----------------------------------------------------------------------------
(* Bounds *)

MaxFinalize == 1
MaxConfs == 3
NumProcs == 2

-----------------------------------------------------------------------------
(* The static pin table and the adaptor's own pin map *)

pins ==
    [n \in {"GPIOG11", "GPIOC0", "GPIOC1", "GPIOC2", "GPIOC3",
            "GPIOA6", "GPIOA2", "GPIOA3"} |->
        CASE n = "GPIOG11" -> [pin |-> 203, pwmPin |-> -1]
          [] n = "GPIOC0"  -> [pin |-> 64,  pwmPin |-> -1]
          [] n = "GPIOC1"  -> [pin |-> 65,  pwmPin |-> -1]
          [] n = "GPIOC2"  -> [pin |-> 66,  pwmPin |-> -1]
          [] n = "GPIOC3"  -> [pin |-> 67,  pwmPin |-> -1]
          [] n = "GPIOA6"  -> [pin |-> 6,   pwmPin |-> -1]
          [] n = "GPIOA2"  -> [pin |-> 14,  pwmPin |-> -1]
          [] n = "GPIOA3"  -> [pin |-> 16,  pwmPin |-> -1]]

\* NewAdaptor never assigns Adaptor.pinmap (setPins is commented out): the
\* field stays the nil map, which has no keys.
pinmap == [n \in {} |-> [pin |-> 0, pwmPin |-> 0]]

\* The zero value a Go map read yields for an absent key.
zeroSysfsPin == [pin |-> 0, pwmPin |-> 0]

\* c.pinmap[pin]
pinmapLookup(pin) == IF pin \in DOMAIN pinmap THEN pinmap[pin] ELSE zeroSysfsPin

GpioNums == {pins[n].pin : n \in DOMAIN pins}

\* Every PWM channel number PWMPin can compute: the pwmPin fields of the
\* values pinmapLookup returns, without the -1 sentinel.
PwmChannels == ({pinmapLookup(n).pwmPin : n \in DOMAIN pins} \cup {0}) \ {-1}

BusSlots == {0, 1}

-----------------------------------------------------------------------------
(* Inputs of the calls *)

DigitalNames == {"GPIOG11", "GPIOC0", "P9_99"}
PwmNames     == {"GPIOG11", "P9_99"}
BusArgs      == -1 .. 3
PwmVals      == {128}
ServoAngles  == {90}

-----------------------------------------------------------------------------
(* Handles *)

NilPin == [present |-> FALSE, exported |-> FALSE]
NilPwm == [present |-> FALSE, period |-> 0]
NilBus == [present |-> FALSE, open |-> FALSE]

NoLast ==
    [op |-> "none", pin |-> "", bus |-> 0, err |-> "nil", io |-> FALSE,
     key |-> -1, dir |-> "none", duty |-> 0, attempted |-> <<>>,
     refused |-> {}, failed |-> {}]

NoDLast ==
    [op |-> "none", confs |-> <<>>, writes |-> <<>>, nReads |-> 0,
     rdata |-> <<>>, busErr |-> "nil", err |-> "nil", val |-> 0, den |-> 0]

DInit ==
    /\ connection = "nil"
    /\ loadSet = [rShunt |-> 0, iMax |-> 0]
    /\ chipCal = 0
    /\ dlast = NoDLast

Procs == 1 .. NumProcs

Keys == ({"gpio"} \X GpioNums) \cup ({"bus"} \X BusSlots)

NoCall ==
    [at |-> "idle", op |-> "none", pin |-> "", bus |-> 0, key |-> -1,
     err |-> "nil", got |-> 0]

CInit ==
    /\ mutex = 0
    /\ pc = [p \in Procs |-> NoCall]
    /\ made = [k \in Keys |-> 0]
    /\ okCount = [k \in Keys |-> 0]

AInit ==
    /\ digitalPins = [i \in GpioNums |-> NilPin]
    /\ pwmPins = [ch \in PwmChannels |-> NilPwm]
    /\ i2cBuses = [b \in BusSlots |-> NilBus]
    /\ gpioExp = {}
    /\ pwmSys = [ch \in PwmChannels |-> "unexported"]
    /\ busOpen = {}
    /\ finalizeCount = 0
    /\ crashed = FALSE
    /\ last = NoLast

-----------------------------------------------------------------------------
(* translatePin: the lookup in the package-level table `pins` *)

translatePin(pin) ==
    IF pin \in DOMAIN pins
    THEN [i |-> pins[pin].pin, err |-> "nil"]
    ELSE [i |-> 0, err |-> "Not a valid pin"]

(* DigitalPin(pin, dir): the set of outcomes of one call from the cache dp and
   the exported set ge.  Each outcome gives the new cache, the new exported
   set, the error and the GPIO number whose handle is returned. *)
DigitalPin(dp, ge, pin, dir) ==
    LET t == translatePin(pin) IN
    IF t.err # "nil"
    THEN {[digitalPins |-> dp, gpioExp |-> ge, err |-> t.err, key |-> -1]}
    ELSE
      LET i == t.i
          created == [dp EXCEPT ![i] = [present |-> TRUE, exported |-> FALSE]]
          \* the cache after the lookup-or-create step, per Export result
          afterExport ==
              IF ~dp[i].present
              THEN {[dp |-> created, ge |-> ge, err |-> "export failed"],
                    [dp |-> [created EXCEPT ![i].exported = TRUE],
                     ge |-> ge \cup {i}, err |-> "nil"]}
              ELSE {[dp |-> dp, ge |-> ge, err |-> "nil"]}
      IN  UNION {
            IF e.err # "nil"
            THEN {[digitalPins |-> e.dp, gpioExp |-> e.ge, err |-> e.err,
                   key |-> -1]}
            ELSE {[digitalPins |-> e.dp, gpioExp |-> e.ge,
                   err |-> "direction failed", key |-> -1],
                  [digitalPins |-> e.dp, gpioExp |-> e.ge, err |-> "nil",
                   key |-> i]}
            : e \in afterExport }

\* DigitalRead / DigitalWrite: DigitalPin, then the pin I/O on success.
DigitalIO(op, pin, dir) ==
    /\ ~crashed
    /\ \E o \in DigitalPin(digitalPins, gpioExp, pin, dir) :
         /\ digitalPins' = o.digitalPins
         /\ gpioExp' = o.gpioExp
         /\ IF o.err # "nil"
            THEN last' = [NoLast EXCEPT !.op = op, !.pin = pin, !.dir = dir,
                                        !.err = o.err]
            ELSE \E ioErr \in {"nil", "io failed"} :
                   last' = [NoLast EXCEPT !.op = op, !.pin = pin, !.dir = dir,
                                          !.key = o.key, !.io = TRUE,
                                          !.err = ioErr]
    /\ UNCHANGED <<pwmPins, i2cBuses, pwmSys, busOpen, finalizeCount, crashed>>
    /\ UNCHANGED <<dvars, cvars>>

DigitalRead == \E pin \in DigitalNames : DigitalIO("DigitalRead", pin, "in")

DigitalWrite == \E pin \in DigitalNames : DigitalIO("DigitalWrite", pin, "out")

-----------------------------------------------------------------------------
(* PWMPin(pin): the set of outcomes of one call from the cache pw and the
   sysfs state ps.  The channel comes from c.pinmap, not from `pins`. *)

PeriodNs == 10000000

PWMPin(pw, ps, pin) ==
    LET sysPin == pinmapLookup(pin)
        ch == sysPin.pwmPin
    IN
    IF ch # -1
    THEN
      IF ~pw[ch].present
      THEN
        LET exported == [ps EXCEPT ![ch] = "disabled"]
            enabled  == [ps EXCEPT ![ch] = "enabled"]
        IN {[pwmPins |-> pw, pwmSys |-> ps, err |-> "export failed", key |-> -1],
            [pwmPins |-> pw, pwmSys |-> IF ps[ch] = "unexported" THEN exported ELSE ps,
             err |-> "disable failed", key |-> -1],
            [pwmPins |-> pw, pwmSys |-> exported,
             err |-> "polarity failed", key |-> -1],
            [pwmPins |-> pw, pwmSys |-> exported,
             err |-> "enable failed", key |-> -1],
            [pwmPins |-> pw, pwmSys |-> enabled,
             err |-> "period failed", key |-> -1],
            [pwmPins |-> [pw EXCEPT ![ch] = [present |-> TRUE,
                                             period |-> PeriodNs]],
             pwmSys |-> enabled, err |-> "nil", key |-> ch]}
      ELSE {[pwmPins |-> pw, pwmSys |-> ps, err |-> "nil", key |-> ch]}
    ELSE {[pwmPins |-> pw, pwmSys |-> ps, err |-> "Not a PWM pin", key |-> -1]}

\* uint32(float64(period) * gobot.FromScale(float64(val), 0, 255.0))
PwmDuty(period, val) ==
    (period \div 255) * val + ((period % 255) * val) \div 255

MinDuty == 500000
MaxDuty == 2000000

\* uint32(gobot.ToScale(gobot.FromScale(float64(angle), 0, 180), minDuty, maxDuty))
ServoDuty(angle) == (angle * (MaxDuty - MinDuty)) \div 180 + MinDuty

PwmWrite ==
    /\ ~crashed
    /\ \E pin \in PwmNames, val \in PwmVals :
       \E o \in PWMPin(pwmPins, pwmSys, pin) :
         /\ pwmSys' = o.pwmSys
         /\ pwmPins' = o.pwmPins
         /\ IF o.err # "nil"
            THEN last' = [NoLast EXCEPT !.op = "PwmWrite", !.pin = pin,
                                        !.err = o.err]
            ELSE \E outcome \in {"period read failed", "duty failed", "nil"} :
                   last' = [NoLast EXCEPT
                              !.op = "PwmWrite", !.pin = pin, !.key = o.key,
                              !.err = outcome,
                              !.io = (outcome # "period read failed"),
                              !.duty = IF outcome = "period read failed" THEN 0
                                       ELSE PwmDuty(o.pwmPins[o.key].period, val)]
    /\ UNCHANGED <<digitalPins, i2cBuses, gpioExp, busOpen, finalizeCount, crashed>>
    /\ UNCHANGED <<dvars, cvars>>

ServoWrite ==
    /\ ~crashed
    /\ \E pin \in PwmNames, angle \in ServoAngles :
       \E o \in PWMPin(pwmPins, pwmSys, pin) :
         /\ pwmSys' = o.pwmSys
         /\ pwmPins' = o.pwmPins
         /\ IF o.err # "nil"
            THEN last' = [NoLast EXCEPT !.op = "ServoWrite", !.pin = pin,
                                        !.err = o.err]
            ELSE \E outcome \in {"duty failed", "nil"} :
                   last' = [NoLast EXCEPT
                              !.op = "ServoWrite", !.pin = pin, !.key = o.key,
                              !.err = outcome, !.io = TRUE,
                              !.duty = ServoDuty(angle)]
    /\ UNCHANGED <<digitalPins, i2cBuses, gpioExp, busOpen, finalizeCount, crashed>>
    /\ UNCHANGED <<dvars, cvars>>

-----------------------------------------------------------------------------
(* GetConnection(address, bus) *)

\* the range check of GetConnection
BusOutOfRange(bus) == (bus < 0) \/ (bus > 2)

\* what the slot holds after sysfs.NewI2cDevice failed: the assignment
\* stores whatever NewI2cDevice returned beside its error, nil or a
\* device that never opened
FailedOpenSlots == {NilBus, [present |-> TRUE, open |-> FALSE]}

GetConnection ==
    /\ ~crashed
    /\ \E bus \in BusArgs :
         IF BusOutOfRange(bus)
         THEN /\ last' = [NoLast EXCEPT !.op = "GetConnection", !.bus = bus,
                                        !.err = "out of range"]
              /\ UNCHANGED <<i2cBuses, busOpen, crashed>>
         ELSE IF bus \notin DOMAIN i2cBuses
         THEN \* c.i2cBuses[bus] on the 2-element array: index out of range
              /\ crashed' = TRUE
              /\ last' = [NoLast EXCEPT !.op = "GetConnection", !.bus = bus,
                                        !.err = "panic"]
              /\ UNCHANGED <<i2cBuses, busOpen>>
         ELSE IF ~i2cBuses[bus].present
         THEN \/ /\ i2cBuses' = [i2cBuses EXCEPT ![bus] =
                                    [present |-> TRUE, open |-> TRUE]]
                 /\ busOpen' = busOpen \cup {bus}
                 /\ last' = [NoLast EXCEPT !.op = "GetConnection", !.bus = bus,
                                           !.key = bus]
                 /\ UNCHANGED crashed
              \/ /\ \E slot \in FailedOpenSlots :
                      i2cBuses' = [i2cBuses EXCEPT ![bus] = slot]
                 /\ last' = [NoLast EXCEPT !.op = "GetConnection", !.bus = bus,
                                           !.key = bus, !.err = "open failed"]
                 /\ UNCHANGED <<busOpen, crashed>>
         ELSE /\ last' = [NoLast EXCEPT !.op = "GetConnection", !.bus = bus,
                                        !.key = bus]
              /\ UNCHANGED <<i2cBuses, busOpen, crashed>>
    /\ UNCHANGED <<digitalPins, pwmPins, gpioExp, pwmSys, finalizeCount>>
    /\ UNCHANGED <<dvars, cvars>>

-----------------------------------------------------------------------------
(* Finalize *)

\* all orders in which a range loop can visit the keys of a map
Orders(S) ==
    {s \in [1 .. Cardinality(S) -> S] : \A a, b \in DOMAIN s : a # b => s[a] # s[b]}

RECURSIVE FlatMap(_, _)
FlatMap(keys, kind) ==
    IF keys = <<>> THEN <<>>
    ELSE (IF kind = "pwm"
          THEN <<[call |-> "pwm.Enable(false)", key |-> Head(keys)],
                 [call |-> "pwm.Unexport", key |-> Head(keys)]>>
          ELSE <<[call |-> kind, key |-> Head(keys)]>>)
         \o FlatMap(Tail(keys), kind)

\* the release calls of the three loops, in order, for one visiting order
\* of each map
ReleaseCalls(dorder, porder) ==
    FlatMap(dorder, "gpio.Unexport")
    \o FlatMap(porder, "pwm")
    \o FlatMap(SelectSeq(<<0, 1>>, LAMBDA b : i2cBuses[b].present), "bus.Close")

\* a teardown that returns at the first failing release call
RECURSIVE RunReleasesAbort(_, _, _)
RunReleasesAbort(calls, failing, acc) ==
    IF calls = <<>> THEN acc
    ELSE LET c == Head(calls)
             acc2 == [attempted |-> Append(acc.attempted, c),
                      failed |-> IF c \in failing THEN acc.failed \cup {c}
                                 ELSE acc.failed]
         IN IF c \in failing THEN acc2
            ELSE RunReleasesAbort(Tail(calls), failing, acc2)

\* the loops: every call is made; a failing one is appended to the error
RECURSIVE RunReleases(_, _, _)
RunReleases(calls, failing, acc) ==
    IF calls = <<>> THEN acc
    ELSE LET c == Head(calls)
             acc2 == [attempted |-> Append(acc.attempted, c),
                      failed |-> IF c \in failing THEN acc.failed \cup {c}
                                 ELSE acc.failed]
         IN RunReleases(Tail(calls), failing, acc2)

Succeeded(r, call, key) ==
    /\ \E n \in DOMAIN r.attempted : r.attempted[n] = [call |-> call, key |-> key]
    /\ [call |-> call, key |-> key] \notin r.failed

\* the three loops of Finalize: for every visiting order of the maps and
\* every set of release calls that fail, what was attempted, what failed and
\* what is left in sysfs
Releases ==
    UNION { UNION {
      LET calls == ReleaseCalls(dorder, porder) IN
      { LET r == RunReleases(calls, failing, [attempted |-> <<>>, failed |-> {}]) IN
        [attempted |-> r.attempted, refused |-> failing, failed |-> r.failed,
         gpioExp |-> {i \in gpioExp : ~Succeeded(r, "gpio.Unexport", i)},
         pwmSys |-> [ch \in PwmChannels |->
                       IF Succeeded(r, "pwm.Unexport", ch) THEN "unexported"
                       ELSE IF Succeeded(r, "pwm.Enable(false)", ch)
                               /\ pwmSys[ch] = "enabled"
                       THEN "disabled"
                       ELSE pwmSys[ch]],
         busOpen |-> {b \in busOpen : ~Succeeded(r, "bus.Close", b)}]
        : failing \in SUBSET {calls[n] : n \in DOMAIN calls} }
      : dorder \in Orders({i \in GpioNums : digitalPins[i].present}) }
      : porder \in Orders({ch \in PwmChannels : pwmPins[ch].present}) }

Finalize ==
    /\ ~crashed
    /\ finalizeCount < MaxFinalize
    /\ finalizeCount' = finalizeCount + 1
    /\ \E r \in Releases :
         /\ gpioExp' = r.gpioExp
         /\ pwmSys' = r.pwmSys
         /\ busOpen' = r.busOpen
         /\ last' = [NoLast EXCEPT !.op = "Finalize",
                                   !.attempted = r.attempted,
                                   !.refused = r.refused,
                                   !.failed = r.failed,
                                   !.err = IF r.failed = {} THEN "nil"
                                           ELSE "multierror"]
    /\ UNCHANGED <<digitalPins, pwmPins, i2cBuses, crashed>>
    /\ UNCHANGED <<dvars, cvars>>

ANext ==
    \/ DigitalRead
    \/ DigitalWrite
    \/ PwmWrite
    \/ ServoWrite
    \/ GetConnection
    \/ Finalize

Init == AInit /\ DInit /\ CInit /\ chipMeas = 0

AdaptorSpec == Init /\ [][ANext]_vars

-----------------------------------------------------------------------------
(***************************************************************************)
(* Concurrent calls: goroutines calling DigitalRead, DigitalWrite,         *)
(* GetConnection and Finalize on one adaptor, one step per statement       *)
(* group of the locked sections.                                           *)
(***************************************************************************)

ConcNames == {"GPIOG11", "P9_99"}
ConcBuses == {-1, 0, 2}

\* a sync.Mutex that never blocks
MutexAlwaysFree(m) == TRUE

\* c.mutex.Lock() returns only when the mutex is unlocked
MutexFree(m) == m = 0

Go(p, fields) == pc' = [pc EXCEPT ![p] = fields]

\* a goroutine enters one of the four methods
Call(p) ==
    /\ ~crashed
    /\ pc[p].at = "idle"
    /\ \/ \E op \in {"DigitalRead", "DigitalWrite"}, pin \in ConcNames :
            Go(p, [NoCall EXCEPT !.at = "lock", !.op = op, !.pin = pin])
       \/ \E bus \in ConcBuses :
            Go(p, [NoCall EXCEPT !.at = "lock", !.op = "GetConnection",
                                 !.bus = bus])
       \/ Go(p, [NoCall EXCEPT !.at = "lock", !.op = "Finalize"])
    /\ UNCHANGED <<avars, mutex, made, okCount, crashed>>
    /\ UNCHANGED dvars

\* c.mutex.Lock()
Lock(p) ==
    /\ ~crashed
    /\ pc[p].at = "lock"
    /\ MutexFree(mutex)
    /\ mutex' = p
    /\ Go(p, [pc[p] EXCEPT !.at = "locked"])
    /\ UNCHANGED <<avars, made, okCount, crashed>>
    /\ UNCHANGED dvars

\* DigitalPin: translatePin and the test c.digitalPins[i] == nil; an unknown
\* name returns at once, through the deferred Unlock
DPLookup(p) ==
    /\ ~crashed
    /\ pc[p].at = "locked"
    /\ pc[p].op \in {"DigitalRead", "DigitalWrite"}
    /\ LET t == translatePin(pc[p].pin) IN
       IF t.err # "nil"
       THEN /\ Go(p, [pc[p] EXCEPT !.at = "returned", !.err = t.err])
            /\ mutex' = 0
       ELSE /\ Go(p, [pc[p] EXCEPT !.key = t.i,
                         !.at = IF digitalPins[t.i].present THEN "direction"
                                ELSE "create"])
            /\ UNCHANGED mutex
    /\ UNCHANGED <<avars, made, okCount, crashed>>
    /\ UNCHANGED dvars

\* DigitalPin: c.digitalPins[i] = sysfs.NewDigitalPin(i), Export, Direction,
\* the return and the deferred Unlock
DPCreate(p) ==
    /\ ~crashed
    /\ pc[p].at = "create"
    /\ LET i == pc[p].key IN
       /\ made' = [made EXCEPT ![<<"gpio", i>>] = @ + 1]
       /\ \/ /\ digitalPins' = [digitalPins EXCEPT ![i] =
                                   [present |-> TRUE, exported |-> TRUE]]
             /\ gpioExp' = gpioExp \cup {i}
             /\ okCount' = [okCount EXCEPT ![<<"gpio", i>>] = @ + 1]
             /\ \/ Go(p, [pc[p] EXCEPT !.at = "returned",
                                        !.got = made[<<"gpio", i>>] + 1])
                \/ Go(p, [pc[p] EXCEPT !.at = "returned",
                                        !.err = "direction failed"])
          \/ /\ digitalPins' = [digitalPins EXCEPT ![i] =
                                   [present |-> TRUE, exported |-> FALSE]]
             /\ Go(p, [pc[p] EXCEPT !.at = "returned", !.err = "export failed"])
             /\ UNCHANGED <<gpioExp, okCount>>
    /\ mutex' = 0
    /\ UNCHANGED <<pwmPins, i2cBuses, pwmSys, busOpen, finalizeCount, last,
                   crashed>>
    /\ UNCHANGED dvars

\* DigitalPin on a cached handle: Direction(dir), the return of
\* c.digitalPins[i] and the deferred Unlock
DPDirection(p) ==
    /\ ~crashed
    /\ pc[p].at = "direction"
    /\ \/ Go(p, [pc[p] EXCEPT !.at = "returned",
                               !.got = made[<<"gpio", pc[p].key>>]])
       \/ Go(p, [pc[p] EXCEPT !.at = "returned", !.err = "direction failed"])
    /\ mutex' = 0
    /\ UNCHANGED <<avars, made, okCount, crashed>>
    /\ UNCHANGED dvars

\* GetConnection: the range check, the index, the test for nil
GCLookup(p) ==
    /\ ~crashed
    /\ pc[p].at = "locked"
    /\ pc[p].op = "GetConnection"
    /\ LET bus == pc[p].bus IN
       IF BusOutOfRange(bus)
       THEN /\ Go(p, [pc[p] EXCEPT !.at = "returned", !.err = "out of range"])
            /\ mutex' = 0
            /\ UNCHANGED crashed
       ELSE IF bus \notin DOMAIN i2cBuses
       THEN \* the panic runs the deferred Unlock, then ends the program
            /\ Go(p, [pc[p] EXCEPT !.at = "panicked", !.err = "panic"])
            /\ mutex' = 0
            /\ crashed' = TRUE
       ELSE IF i2cBuses[bus].present
       THEN /\ Go(p, [pc[p] EXCEPT !.key = bus, !.at = "returned",
                                   !.got = made[<<"bus", bus>>]])
            /\ mutex' = 0
            /\ UNCHANGED crashed
       ELSE /\ Go(p, [pc[p] EXCEPT !.key = bus, !.at = "open"])
            /\ UNCHANGED <<mutex, crashed>>
    /\ UNCHANGED <<avars, made, okCount>>
    /\ UNCHANGED dvars

\* GetConnection: c.i2cBuses[bus], err = sysfs.NewI2cDevice(...), the return
\* and the deferred Unlock
GCOpen(p) ==
    /\ ~crashed
    /\ pc[p].at = "open"
    /\ LET bus == pc[p].key
           k == <<"bus", bus>> IN
       \/ /\ i2cBuses' = [i2cBuses EXCEPT ![bus] =
                             [present |-> TRUE, open |-> TRUE]]
          /\ busOpen' = busOpen \cup {bus}
          /\ made' = [made EXCEPT ![k] = @ + 1]
          /\ okCount' = [okCount EXCEPT ![k] = @ + 1]
          /\ Go(p, [pc[p] EXCEPT !.at = "returned", !.got = made[k] + 1])
       \/ /\ \E slot \in FailedOpenSlots :
               /\ i2cBuses' = [i2cBuses EXCEPT ![bus] = slot]
               /\ made' = [made EXCEPT ![k] = IF slot.present THEN @ + 1 ELSE @]
          /\ Go(p, [pc[p] EXCEPT !.at = "returned", !.err = "open failed"])
          /\ UNCHANGED <<busOpen, okCount>>
    /\ mutex' = 0
    /\ UNCHANGED <<digitalPins, pwmPins, gpioExp, pwmSys, finalizeCount, last,
                   crashed>>
    /\ UNCHANGED dvars

\* Finalize: the release loops, the return and the deferred Unlock
FinRun(p) ==
    /\ ~crashed
    /\ pc[p].at = "locked"
    /\ pc[p].op = "Finalize"
    /\ \E r \in Releases :
         /\ gpioExp' = r.gpioExp
         /\ pwmSys' = r.pwmSys
         /\ busOpen' = r.busOpen
         /\ Go(p, [pc[p] EXCEPT !.at = "returned",
                                !.err = IF r.failed = {} THEN "nil"
                                        ELSE "multierror"])
    /\ mutex' = 0
    /\ UNCHANGED <<digitalPins, pwmPins, i2cBuses, finalizeCount, last, made,
                   okCount, crashed>>
    /\ UNCHANGED dvars

\* after the method returned: the pin Read/Write on the handle (DigitalRead,
\* DigitalWrite), or the use of the result; the goroutine is free again
Return(p) ==
    /\ ~crashed
    /\ pc[p].at = "returned"
    /\ Go(p, NoCall)
    /\ UNCHANGED <<avars, mutex, made, okCount, crashed>>
    /\ UNCHANGED dvars

\* the steps of a goroutine inside a call, once it holds the mutex
Progress(p) ==
    \/ DPLookup(p)
    \/ DPCreate(p)
    \/ DPDirection(p)
    \/ GCLookup(p)
    \/ GCOpen(p)
    \/ FinRun(p)
    \/ Return(p)

CNext == \E p \in Procs : Call(p) \/ Lock(p) \/ Progress(p)

\* a running goroutine takes its next step; sync.Mutex hands the lock to a
\* goroutine that keeps waiting for it (starvation mode)
ConcSpec ==
    /\ Init
    /\ [][CNext]_vars
    /\ \A p \in Procs : WF_vars(Progress(p)) /\ SF_vars(Lock(p))

\* the goroutine is between c.mutex.Lock() and the deferred Unlock
InCriticalSection(p) ==
    pc[p].at \in {"locked", "create", "direction", "open"}

C10_Safety ==
    /\ \A p \in Procs : InCriticalSection(p) <=> mutex = p
    /\ \A p, q \in Procs :
          (InCriticalSection(p) /\ InCriticalSection(q)) => p = q
    /\ \A k \in Keys : made[k] <= 1 /\ okCount[k] <= 1
    /\ \A p \in Procs :
          (/\ pc[p].at = "returned"
           /\ pc[p].err = "nil"
           /\ pc[p].op \in {"DigitalRead", "DigitalWrite", "GetConnection"}) =>
              /\ pc[p].got = 1
              /\ IF pc[p].op = "GetConnection"
                 THEN i2cBuses[pc[p].key].present /\ made[<<"bus", pc[p].key>>] = 1
                 ELSE digitalPins[pc[p].key].present
                      /\ made[<<"gpio", pc[p].key>>] = 1

\* C10 (ConcSpec): under any interleaving of DigitalRead, DigitalWrite,
\* GetConnection and Finalize the lookup-or-create sections exclude each
\* other, each GPIO number and bus index gets at most one cached handle and
\* one successful export/open, every successful caller gets that handle, and
\* the mutex is held exactly by the goroutine inside its locked section and
\* released on every path out of it, so that every call, waiting for the
\* mutex or holding it, returns, unless a panic ends the program.
C10_MutualExclusion ==
    /\ []C10_Safety
    /\ \A p \in Procs : (pc[p].at # "idle") ~> (pc[p].at = "idle" \/ crashed)

\* two goroutines use the same GPIO: one holds the handle it got while the
\* other, inside the locked section, found that handle in the cache
C10_Witness ==
    \E p, q \in Procs :
        /\ p # q
        /\ pc[p].at = "returned" /\ pc[p].op = "DigitalRead"
        /\ pc[p].pin = "GPIOG11" /\ pc[p].got = 1
        /\ pc[q].at = "direction" /\ pc[q].op = "DigitalWrite"
        /\ pc[q].pin = "GPIOG11"
        /\ mutex = q
        /\ okCount[<<"gpio", 203>>] = 1

-----------------------------------------------------------------------------
(* Claims about the adaptor, checked under AdaptorSpec *)

\* C1: GetConnection with a bus index other than 0 and 1 returns the
\* out-of-range error and never indexes the 2-slot bus table out of bounds.
C1_OutOfRangeRejected ==
    (last.op = "GetConnection" /\ last.bus \notin BusSlots)
        => (last.err = "out of range" /\ ~crashed)

\* the release calls Finalize owes to the cached handles
OwedReleases ==
    {[call |-> "gpio.Unexport", key |-> i] : i \in {j \in GpioNums : digitalPins[j].present}}
    \cup {[call |-> "pwm.Enable(false)", key |-> ch] : ch \in {c \in PwmChannels : pwmPins[c].present}}
    \cup {[call |-> "pwm.Unexport", key |-> ch] : ch \in {c \in PwmChannels : pwmPins[c].present}}
    \cup {[call |-> "bus.Close", key |-> b] : b \in {c \in BusSlots : i2cBuses[c].present}}

Position(seq, x) == CHOOSE n \in DOMAIN seq : seq[n] = x

\* C2: Finalize attempts every release call of every cached handle exactly
\* once whatever fails (PWM: disable, then unexport, also after a failed
\* disable), returns nil exactly when no call failed and otherwise an
\* aggregated error holding every failure.
C2_FinalizeBestEffort ==
    last.op = "Finalize" =>
        /\ {last.attempted[n] : n \in DOMAIN last.attempted} = OwedReleases
        /\ Len(last.attempted) = Cardinality(OwedReleases)
        /\ \A ch \in PwmChannels : pwmPins[ch].present =>
              Position(last.attempted, [call |-> "pwm.Enable(false)", key |-> ch])
                < Position(last.attempted, [call |-> "pwm.Unexport", key |-> ch])
        /\ last.failed = last.refused
        /\ (last.err = "nil") <=> (last.refused = {})
        /\ (last.err # "nil") => last.err = "multierror"

\* a Finalize over two digital pins, a PWM pin and a bus in which one
\* digital unexport and the PWM disable fail
C2_Witness ==
    /\ last.op = "Finalize"
    /\ Cardinality({i \in GpioNums : digitalPins[i].present}) = 2
    /\ \E ch \in PwmChannels : pwmPins[ch].present
    /\ \E b \in BusSlots : i2cBuses[b].present
    /\ Cardinality(last.refused) = 2
    /\ \E ch \in PwmChannels : [call |-> "pwm.Enable(false)", key |-> ch] \in last.refused
    /\ \E i \in GpioNums : [call |-> "gpio.Unexport", key |-> i] \in last.refused

\* C3: PwmWrite and ServoWrite on a name whose table entry has no PWM channel,
\* or on a name absent from the table, fail with 'Not a PWM pin', export no
\* PWM channel and cache no PWM pin.
C3_NotAPwmPin ==
    /\ (/\ last.op \in {"PwmWrite", "ServoWrite"}
        /\ (last.pin \notin DOMAIN pins \/ pins[last.pin].pwmPin = -1))
            => last.err = "Not a PWM pin"
    /\ (\A n \in DOMAIN pins : pins[n].pwmPin = -1) =>
            \A ch \in PwmChannels :
                ~pwmPins[ch].present /\ pwmSys[ch] = "unexported"

\* C4: DigitalRead/DigitalWrite perform the pin I/O only on a handle whose
\* export succeeded and whose direction was set in this call; an unknown
\* name, a failed export or a failed direction gives an error and no I/O.
C4_IoOnlyOnExportedHandle ==
    last.op \in {"DigitalRead", "DigitalWrite"} =>
        /\ last.io =>
              /\ last.pin \in DOMAIN pins
              /\ last.key = pins[last.pin].pin
              /\ digitalPins[last.key].present
              /\ digitalPins[last.key].exported
              /\ last.dir = (IF last.op = "DigitalRead" THEN "in" ELSE "out")
        /\ last.pin \notin DOMAIN pins =>
              (last.err = "Not a valid pin" /\ ~last.io)
        /\ last.err \in {"export failed", "direction failed"} => ~last.io

\* C5: after any calls, a single Finalize whose release calls all succeed
\* leaves no GPIO pin or PWM channel exported and no bus device open.
C5_AllReleased ==
    (last.op = "Finalize" /\ finalizeCount = 1 /\ last.refused = {}) =>
        /\ gpioExp = {}
        /\ \A ch \in PwmChannels : pwmSys[ch] = "unexported"
        /\ busOpen = {}

-----------------------------------------------------------------------------
(***************************************************************************)
(* The INA226 driver.  Physical quantities are exact rationals over        *)
(* integers: shunt resistance in milliohm, current in microampere.         *)
(***************************************************************************)

CONFIG_REG == 0
SHUNTVOLTAGE_REG == 1
BUSVOLTAGE_REG == 2
CURRENT_REG == 4
CALIBRATION_REG == 5
MANUFACTURERID_REG == 254

INA226_MODE_SHUNT_CONT == 5
INA226_MODE_SHUNT_BUS_CONT == 7
INA226_SHUNT_CONV_TIME_1100US == 32
INA226_AVERAGES_16 == 1024
INA226_RST == 32768

\* inputs of the driver calls
ConfFlags ==
    {INA226_MODE_SHUNT_CONT, INA226_MODE_SHUNT_BUS_CONT,
     INA226_SHUNT_CONV_TIME_1100US, INA226_AVERAGES_16, INA226_RST}
SampleConfs ==
    {<<>>, <<INA226_RST>>, <<INA226_MODE_SHUNT_BUS_CONT, INA226_AVERAGES_16>>}
RShuntVals == {-100, 0, 1, 10000}
IMaxVals == {0, 1000, 327680, 40000000}
SampleWords == {1000, 32768, 65436}
Words == 0 .. 65535

RECURSIVE BitOr(_, _)
\* a | b on unsigned words
BitOr(a, b) ==
    IF a = 0 THEN b
    ELSE IF b = 0 THEN a
    ELSE (IF a % 2 = 1 \/ b % 2 = 1 THEN 1 ELSE 0)
         + 2 * BitOr(a \div 2, b \div 2)

\* a word stored low byte first
wordToByteArrayLE(w) == <<w % 256, (w \div 256) % 256>>

\* wordToByteArray: byte(w >> 8), byte(w)
wordToByteArray(w) == <<(w \div 256) % 256, w % 256>>

RECURSIVE OrAll(_)
\* the loop of Configure: configuration |= conf
OrAll(confs) ==
    IF confs = <<>> THEN 0
    ELSE BitOr(OrAll(SubSeq(confs, 1, Len(confs) - 1)), confs[Len(confs)])

\* the chip's reaction to a write of a register: a configuration word with
\* the RST bit returns every register to its power-on value, a calibration
\* word is stored
ChipAfterWrite(reg, w) ==
    IF reg = CALIBRATION_REG THEN w
    ELSE IF reg = CONFIG_REG /\ w >= INA226_RST THEN 0
    ELSE chipCal

\* a three-byte register write on the connection: buf, chip, bus error
WriteRegister(op, reg, w, confs) ==
    LET buf == <<reg>> \o wordToByteArray(w) IN
    \/ /\ chipCal' = ChipAfterWrite(reg, w)
       /\ dlast' = [NoDLast EXCEPT !.op = op, !.confs = confs,
                                   !.writes = <<buf>>]
    \/ /\ chipCal' = chipCal
       /\ dlast' = [NoDLast EXCEPT !.op = op, !.confs = confs,
                                   !.writes = <<buf>>,
                                   !.busErr = "write: EIO",
                                   !.err = "write: EIO"]

\* a method call on the nil connection: nil pointer dereference
NilConnection(op) ==
    /\ connection = "nil"
    /\ crashed' = TRUE
    /\ dlast' = [NoDLast EXCEPT !.op = op, !.err = "panic"]
    /\ UNCHANGED <<chipCal, chipMeas>>

\* Start: GetConnection, then Configure() whose error is dropped
Start ==
    /\ ~crashed
    /\ \/ /\ connection' = "conn"
          /\ \E wrote \in BOOLEAN :
               /\ chipCal' = chipCal
               /\ dlast' = [NoDLast EXCEPT
                              !.op = "Start",
                              !.writes = <<<<CONFIG_REG>> \o wordToByteArray(0)>>,
                              !.busErr = IF wrote THEN "nil" ELSE "write: EIO"]
       \/ /\ connection' \in {"nil", "conn"}
          /\ dlast' = [NoDLast EXCEPT !.op = "Start", !.err = "no connection"]
          /\ UNCHANGED chipCal
    /\ UNCHANGED <<loadSet, crashed, chipMeas>>
    /\ UNCHANGED <<avars, cvars>>

ConfSeqs == UNION {[1 .. n -> ConfFlags] : n \in 0 .. MaxConfs}

ConfigureFrom(seqs) ==
    /\ ~crashed
    /\ \E confs \in seqs :
         \/ /\ NilConnection("Configure")
         \/ /\ connection # "nil"
            /\ WriteRegister("Configure", CONFIG_REG, OrAll(confs), confs)
            /\ UNCHANGED <<crashed, chipMeas>>
    /\ UNCHANGED <<connection, loadSet>>
    /\ UNCHANGED <<avars, cvars>>

Configure == ConfigureFrom(ConfSeqs)

ConfigureSampled == ConfigureFrom(SampleConfs)

Reset ==
    /\ ~crashed
    /\ \/ NilConnection("Reset")
       \/ /\ connection # "nil"
          /\ WriteRegister("Reset", CONFIG_REG, INA226_RST, <<>>)
          /\ UNCHANGED <<crashed, chipMeas>>
    /\ UNCHANGED <<connection, loadSet>>
    /\ UNCHANGED <<avars, cvars>>

-----------------------------------------------------------------------------
(* Calibrate *)

RECURSIVE Pow10(_)
Pow10(k) == IF k = 0 THEN 1 ELSE 10 * Pow10(k - 1)

RECURSIVE FloorLog10(_, _)
\* math.Floor(math.Log10(n / d)) for n, d > 0
FloorLog10(n, d) ==
    IF n >= 10 * d THEN FloorLog10(n, 10 * d) + 1
    ELSE IF n < d THEN FloorLog10(10 * n, d) - 1
    ELSE 0

CeilDiv(a, b) == (a + b - 1) \div b

LSBDivisor == 32768

\* currentLSB_approx in microampere, as mantissa m and exponent e of
\* m * 10^e: the mantissa of iMax / 32768 (iMax in microampere), ceiled
CurrentLSBApprox(iMax) ==
    LET e == FloorLog10(iMax, LSBDivisor)
        m == IF e >= 0 THEN CeilDiv(iMax, LSBDivisor * Pow10(e))
             ELSE CeilDiv(iMax * Pow10(-e), LSBDivisor)
    IN [m |-> m, e |-> e]

\* 0.00512 in units of 10^-9: 0.00512 / (1e-6 A * 1e-3 Ohm)
CalNumerator == 5120000

\* (0.00512) / (currentLSB * rShunt), floored, for rShunt, iMax > 0
CalQuotient(rShunt, iMax) ==
    LET a == CurrentLSBApprox(iMax) IN
    IF a.e >= 0 THEN CalNumerator \div (a.m * Pow10(a.e) * rShunt)
    ELSE (CalNumerator * Pow10(-a.e)) \div (a.m * rShunt)

\* uint16(x) of a float64: the integer part when it fits; otherwise (too
\* large, negative, infinite, NaN) the result is implementation-specific
Uint16OfFloat(fits, q) ==
    IF fits /\ q >= 0 /\ q <= 65535 THEN {q}
    ELSE IF fits THEN {0, 65535, q % 65536}
    ELSE {0, 65535}

\* the values calibrationValue can take
CalibrationValues(rShunt, iMax) ==
    IF iMax <= 0 \/ rShunt = 0
    THEN Uint16OfFloat(FALSE, 0)     \* NaN or +Inf
    ELSE IF rShunt < 0
    THEN Uint16OfFloat(TRUE, -CalQuotient(-rShunt, iMax))
    ELSE Uint16OfFloat(TRUE, CalQuotient(rShunt, iMax))

CalibrateFrom(rShunts, iMaxs) ==
    /\ ~crashed
    /\ \E rShuntValue \in rShunts, iMaxValue \in iMaxs :
         /\ loadSet' = [rShunt |-> rShuntValue, iMax |-> iMaxValue]
         /\ \E calibrationValue \in CalibrationValues(rShuntValue, iMaxValue) :
              \/ NilConnection("Calibrate")
              \/ /\ connection # "nil"
                 /\ WriteRegister("Calibrate", CALIBRATION_REG,
                                  calibrationValue, <<>>)
                 /\ UNCHANGED <<crashed, chipMeas>>
    /\ UNCHANGED connection
    /\ UNCHANGED <<avars, cvars>>

Calibrate == CalibrateFrom(RShuntVals, IMaxVals)

\* a 0.1 Ohm shunt and 1 A
CalibrateTypical == CalibrateFrom({100}, {1000000})

-----------------------------------------------------------------------------
(* Register reads *)

\* the two bytes the chip sends for a register, high byte first: the stored
\* calibration word, or a measurement
ChipBytes(reg) ==
    IF reg = CALIBRATION_REG
    THEN <<(chipCal \div 256) % 256, chipCal % 256>>
    ELSE <<(chipMeas \div 256) % 256, chipMeas % 256>>

\* readRegister16(reg): the outcomes of the address write and the read
readRegister16(reg) ==
    {[writes |-> <<<<reg>>>>, nReads |-> 0, rdata |-> <<>>,
      busErr |-> "write: EIO", err |-> "write: EIO", value |-> 0],
     [writes |-> <<<<reg>>>>, nReads |-> 1, rdata |-> <<>>,
      busErr |-> "read: EIO", err |-> "read: EIO", value |-> 0]}
    \cup {[writes |-> <<<<reg>>>>, nReads |-> 1, rdata |-> <<buf>>,
           busErr |-> "nil", err |-> "nil",
           value |-> buf[1] * 256 + buf[2]] : buf \in {ChipBytes(reg)}}

\* a conversion that keeps the 16-bit word unsigned
Unsigned16(v) == v

\* int16(v) of a uint16
Int16(v) == ((v + 32768) % 65536) - 32768

\* the result record of an operation that is one register read
ReadResult(op, r, val) ==
    [NoDLast EXCEPT !.op = op, !.writes = r.writes, !.nReads = r.nReads,
                    !.rdata = r.rdata, !.busErr = r.busErr, !.err = r.err,
                    !.val = IF r.err = "nil" THEN val ELSE 0]

\* CurrentResolution() as outcomes: the validation, then the read-back
CurrentResolutionOutcomes ==
    IF loadSet.rShunt <= 0
    THEN {[writes |-> <<>>, nReads |-> 0, rdata |-> <<>>, busErr |-> "nil",
           err |-> "rShunt invalid", value |-> 0, den |-> 0]}
    ELSE {[writes |-> r.writes, nReads |-> r.nReads, rdata |-> r.rdata,
           busErr |-> r.busErr, err |-> r.err, value |-> r.value,
           den |-> r.value * loadSet.rShunt]
          : r \in readRegister16(CALIBRATION_REG)}

\* common frame of the read operations
ReadFrame(op) ==
    /\ ~crashed
    /\ \/ NilConnection(op)
       \/ /\ connection # "nil"
          /\ UNCHANGED <<crashed, chipCal, chipMeas>>
    /\ UNCHANGED <<connection, loadSet>>
    /\ UNCHANGED <<avars, cvars>>

\* val = 0.00512 (as CalNumerator) over den; den = 0 is the float +Inf
CurrentResolution ==
    /\ ~crashed
    /\ \/ /\ connection = "nil"
          /\ loadSet.rShunt > 0
          /\ NilConnection("CurrentResolution")
       \/ /\ (connection # "nil" \/ loadSet.rShunt <= 0)
          /\ \E o \in CurrentResolutionOutcomes :
               dlast' = [NoDLast EXCEPT
                           !.op = "CurrentResolution", !.writes = o.writes,
                           !.nReads = o.nReads, !.rdata = o.rdata,
                           !.busErr = o.busErr, !.err = o.err,
                           !.val = IF o.err = "nil" THEN CalNumerator ELSE 0,
                           !.den = IF o.err = "nil" THEN o.den ELSE 0]
          /\ UNCHANGED <<crashed, chipCal, chipMeas>>
    /\ UNCHANGED <<connection, loadSet>>
    /\ UNCHANGED <<avars, cvars>>

ReadManufacturerRegister ==
    /\ ReadFrame("ReadManufacturerRegister")
    /\ connection # "nil" =>
         \E r \in readRegister16(MANUFACTURERID_REG) :
            dlast' = ReadResult("ReadManufacturerRegister", r, r.value)

\* val in units of 1.25 / 100
ReadBusVoltage ==
    /\ ReadFrame("ReadBusVoltage")
    /\ connection # "nil" =>
         \E r \in readRegister16(BUSVOLTAGE_REG) :
            dlast' = ReadResult("ReadBusVoltage", r, r.value * 125)

\* val in units of 0.0001: float64(int16(voltage)) * 0.0025
ReadShuntVoltage ==
    /\ ReadFrame("ReadShuntVoltage")
    /\ connection # "nil" =>
         \E r \in readRegister16(SHUNTVOLTAGE_REG) :
            dlast' = ReadResult("ReadShuntVoltage", r, Int16(r.value) * 25)

ReadShuntCurrentRegister ==
    /\ ReadFrame("ReadShuntCurrentRegister")
    /\ connection # "nil" =>
         \E r \in readRegister16(CURRENT_REG) :
            dlast' = ReadResult("ReadShuntCurrentRegister", r, Int16(r.value))

\* val = the signed current register; the result is val * 0.00512 / den
ReadShuntCurrent ==
    /\ ReadFrame("ReadShuntCurrent")
    /\ connection # "nil" =>
         \E r \in readRegister16(CURRENT_REG) :
            IF r.err # "nil"
            THEN dlast' = ReadResult("ReadShuntCurrent", r, 0)
            ELSE \E o \in CurrentResolutionOutcomes :
                   dlast' = [NoDLast EXCEPT
                               !.op = "ReadShuntCurrent",
                               !.writes = r.writes \o o.writes,
                               !.nReads = r.nReads + o.nReads,
                               !.rdata = r.rdata \o o.rdata,
                               !.busErr = o.busErr, !.err = o.err,
                               !.val = IF o.err = "nil" THEN Int16(r.value) ELSE 0,
                               !.den = IF o.err = "nil" THEN o.den ELSE 0]

DNext ==
    \/ Start
    \/ ConfigureSampled
    \/ Calibrate
    \/ Reset
    \/ CurrentResolution
    \/ ReadManufacturerRegister
    \/ ReadBusVoltage
    \/ ReadShuntVoltage
    \/ ReadShuntCurrentRegister
    \/ ReadShuntCurrent

DriverInit == AInit /\ DInit /\ CInit /\ chipMeas \in SampleWords

DriverSpec == DriverInit /\ [][DNext]_vars

\* Configure over every flag sequence, on a driver calibrated or not
ConfigNext == Start \/ CalibrateTypical \/ Configure

ConfigSpec == Init /\ [][ConfigNext]_vars

\* the shunt-voltage conversion over every content of the register
ShuntInit == AInit /\ DInit /\ CInit /\ chipMeas \in Words

ShuntNext == Start \/ ReadShuntVoltage

ShuntSpec == ShuntInit /\ [][ShuntNext]_vars

-----------------------------------------------------------------------------
(* Claims about the driver *)

\* C6 (DriverSpec): CurrentResolution never divides by zero: with a stored
\* shunt resistance <= 0 it fails with the validation error and no bus I/O,
\* otherwise it returns 0.00512 / (calibration * rShunt), divisor nonzero.
C6_NoDivisionByZero ==
    dlast.op = "CurrentResolution" =>
        IF loadSet.rShunt <= 0
        THEN /\ dlast.err = "rShunt invalid"
             /\ dlast.writes = <<>>
             /\ dlast.nReads = 0
        ELSE dlast.err = "nil" =>
               /\ dlast.val = CalNumerator
               /\ dlast.den = chipCal * loadSet.rShunt
               /\ dlast.den # 0

\* whether m * 10^e (microampere) is at least iMax / 32768
AtLeastLSB(m, e, iMax) ==
    IF e >= 0 THEN m * Pow10(e) * LSBDivisor >= iMax
    ELSE IF iMax >= LSBDivisor THEN FALSE
    ELSE m * LSBDivisor >= iMax * Pow10(-e)

\* iMax / 32768 rounded up to one significant decimal digit: the least
\* m * 10^e, m in 1..9, that is at least iMax / 32768
RoundedLSB(iMax) ==
    CHOOSE c \in [m : 1 .. 9, e : -3 .. 3] :
        /\ AtLeastLSB(c.m, c.e, iMax)
        /\ \A c2 \in [m : 1 .. 9, e : -3 .. 3] :
              AtLeastLSB(c2.m, c2.e, iMax) =>
                  (c.e < c2.e \/ (c.e = c2.e /\ c.m <= c2.m))

\* floor(0.00512 / (roundedLSB * rShunt)) kept to 16 bits
ExpectedCalibration(rShunt, iMax) ==
    LET c == RoundedLSB(iMax) IN
    (IF c.e >= 0 THEN CalNumerator \div (c.m * Pow10(c.e) * rShunt)
     ELSE (CalNumerator * Pow10(-c.e)) \div (c.m * rShunt)) % 65536

\* whether floor(0.00512 / (roundedLSB * rShunt)) is a nonzero 16-bit value
CalibrationFits(rShunt, iMax) ==
    LET c == RoundedLSB(iMax)
        q == IF c.e >= 0 THEN CalNumerator \div (c.m * Pow10(c.e) * rShunt)
             ELSE (CalNumerator * Pow10(-c.e)) \div (c.m * rShunt)
    IN q >= 1 /\ q <= 65535

\* C7 (DriverSpec): for rShunt > 0 and iMax > 0 Calibrate writes to register
\* 0x05 floor(0.00512 / (roundedLSB * rShunt)) truncated to 16 bits, and a
\* following CurrentResolution, the chip holding that value, returns
\* 0.00512 / (calibrationValue * rShunt).
C7_CalibrationValue ==
    (loadSet.rShunt > 0 /\ loadSet.iMax > 0) =>
        LET cal == ExpectedCalibration(loadSet.rShunt, loadSet.iMax) IN
        /\ (dlast.op = "Calibrate" /\ dlast.err # "panic") =>
              dlast.writes = <<<<5, cal \div 256, cal % 256>>>>
        /\ (dlast.op = "CurrentResolution" /\ dlast.err = "nil" /\ chipCal = cal) =>
              /\ dlast.val = CalNumerator
              /\ dlast.den = cal * loadSet.rShunt
              /\ dlast.den # 0

\* the part of C7 that holds: the same statement for the inputs whose
\* quotient is a nonzero 16-bit value
C7_WithinRange ==
    (loadSet.rShunt > 0 /\ loadSet.iMax > 0
        /\ CalibrationFits(loadSet.rShunt, loadSet.iMax)) => C7_CalibrationValue

Bit(w, k) == (w \div (2 ^ k)) % 2

\* C8 (ConfigSpec): on a connected driver Configure issues exactly one bus
\* write of exactly 3 bytes, 0x00 then the high and the low byte of the OR of
\* all flags given (0 for none), returns the bus error unmodified, and leaves
\* the stored calibration context alone.
C8_ConfigureWrite ==
    /\ [](dlast.op = "Configure" /\ dlast.err # "panic" =>
            /\ Len(dlast.writes) = 1
            /\ Len(dlast.writes[1]) = 3
            /\ dlast.writes[1][1] = 0
            /\ dlast.writes[1][2] \in 0 .. 255
            /\ dlast.writes[1][3] \in 0 .. 255
            /\ \A k \in 0 .. 15 :
                  Bit(dlast.writes[1][2] * 256 + dlast.writes[1][3], k) = 1
                    <=> \E n \in DOMAIN dlast.confs : Bit(dlast.confs[n], k) = 1
            /\ dlast.nReads = 0
            /\ dlast.err = dlast.busErr)
    /\ [][dlast'.op = "Configure" => loadSet' = loadSet]_vars

\* Configure(shunt-continuous, 16 averages, reset) on a calibrated driver
C8_Witness ==
    /\ dlast.op = "Configure"
    /\ dlast.confs = <<INA226_MODE_SHUNT_CONT, INA226_AVERAGES_16, INA226_RST>>
    /\ dlast.writes = <<<<0, 132, 5>>>>
    /\ dlast.err = "write: EIO"
    /\ loadSet.rShunt = 100

\* C9 (ShuntSpec): ReadShuntVoltage writes the one byte 0x01, reads two
\* bytes, takes them big-endian as a two's-complement 16-bit value and
\* scales by 0.0025 (val is in units of 0.0001); when the address write
\* fails nothing is read and the error is returned.
C9_ShuntVoltage ==
    (dlast.op = "ReadShuntVoltage" /\ dlast.err # "panic") =>
        /\ dlast.writes = <<<<1>>>>
        /\ dlast.err = dlast.busErr
        /\ dlast.busErr = "write: EIO" => dlast.nReads = 0
        /\ dlast.err = "nil" =>
              /\ dlast.nReads = 1
              /\ Len(dlast.rdata) = 1
              /\ Len(dlast.rdata[1]) = 2
              /\ LET r == dlast.rdata[1][1] * 256 + dlast.rdata[1][2] IN
                  /\ r = chipMeas
                  /\ dlast.val = (IF r < 32768 THEN r ELSE r - 65536) * 25

\* the register holds -100: the result is -0.25
C9_Witness ==
    /\ dlast.op = "ReadShuntVoltage"
    /\ dlast.err = "nil"
    /\ dlast.rdata = <<<<255, 156>>>>
    /\ dlast.val = -2500

====
